---- MODULE Spec2Model ----
(***************************************************************************)
(* Verification model of the fastapi-boilerplates example handlers:        *)
(*   - search-routes-with-pagination-best-practices/example.py             *)
(*       offset pagination (SpecPage, SpecMeta) and cursor pagination      *)
(*       (SpecCursor, SpecCursorLive, SpecCursorChurn)                     *)
(*   - try-except-block-best-practices, error-handling, logger             *)
(*       exception propagation through try/except blocks (SpecErr)         *)
(*   - computed-field-best-practices/example.py                            *)
(*       the Product document and its routes (SpecProd)                    *)
(* Every specification shares one set of variables; the variables that a   *)
(* specification does not use keep their idle value.                       *)
(***************************************************************************)
EXTENDS Integers, Sequences, FiniteSets, TLC

VARIABLES
    products,   \* search example: the "products" collection, _id -> document
    trav,       \* offset traversal: the query parameters the client keeps fixed
    nextPage,   \* offset traversal: the page the client requests next
    got,        \* offset traversal: the item lists of the pages received so far
    lastResp,   \* the last response of the search example's handlers
    cur,        \* cursor requests: [limit, category, cursor, phase, churn]
    delivered,  \* cursor traversal: the ids received so far, in order
    stable,     \* cursor traversal: ids present during the whole traversal
    errReq,     \* error examples: the request (handler and what it raises)
    errResp,    \* error examples: the response the client receives
    store,      \* computed-field example: the "products" collection
    now,        \* computed-field example: the clock read by datetime.utcnow()
    prodResp,   \* computed-field example: the last response
    changed,    \* computed-field example: _id -> time of its last accepted write
    listReq,    \* computed-field example: the query of the last list_products
    conc,       \* computed-field example: concurrent adjust_stock requests
    MOCK_USERS,      \* header-cookie example: username -> user data
    MOCK_SESSIONS,   \* header-cookie example: session_id -> user_id
    VALID_API_KEYS,  \* header-cookie example: the accepted API keys
    authResp    \* header-cookie example: the last request and its response

vars == <<products, trav, nextPage, got, lastResp, cur, delivered, stable,
          errReq, errResp, store, now, prodResp, changed, listReq, conc,
          MOCK_USERS, MOCK_SESSIONS, VALID_API_KEYS, authResp>>

None == "None"

(***************************************************************************)
(* Bounds of the model.                                                    *)
(***************************************************************************)
MaxProducts == 3      \* documents in the collection of an offset traversal
MaxPageSize == 2      \* page_size values tried by an offset traversal
MaxTotal == 12        \* count() results tried for the page metadata
MaxPage == 3          \* page numbers tried for the page metadata
MaxId == 4            \* _id values of the collection of a cursor request
MaxLimit == 2         \* limit values tried by cursor requests
MaxWalkId == 3        \* _id values of the collection of a cursor traversal
MaxChurn == 2         \* inserts and deletes during one cursor traversal
MaxMoney == 2         \* price and cost values of a product
MaxQty == 2           \* quantity values of a product
MaxTime == 2          \* readings of the clock
MaxHeaderLen == 3     \* pieces of an Authorization header or cookie value
MaxRequests == 2      \* adjust_stock requests in flight at the same time

\* Query(20, ge=1, le=100): the largest page_size the handlers accept
PageSizeLimit == 100

(***************************************************************************)
(* Helpers on sequences and sets.                                          *)
(***************************************************************************)
Range(s) == { s[i] : i \in 1..Len(s) }

Min(a, b) == IF a < b THEN a ELSE b

RECURSIVE Flatten(_)
Flatten(ss) == IF ss = << >> THEN << >> ELSE Head(ss) \o Flatten(Tail(ss))

\* Python slicing s[skip : skip + limit], which is what skip(n).limit(m) returns
SkipLimit(s, skip, limit) ==
    SubSeq(s, skip + 1, Min(Len(s), skip + limit))

(***************************************************************************)
(* Offset pagination: search-routes-with-pagination-best-practices.        *)
(***************************************************************************)

\* The fields of a Product document that the modelled queries read.
ProductDocs == [is_active : BOOLEAN, category : {"a", "b"},
                created_at : 0..1, stock : 0..1]

SkipOffByOne(page, page_size) == page * page_size

\* skip = (page - 1) * page_size
Skip(page, page_size) == (page - 1) * page_size

\* math.ceil(a / b) for a >= 0, b >= 1
PyCeilDiv(a, b) == IF a % b = 0 THEN a \div b ELSE (a \div b) + 1

TotalPagesFloor(total, page_size) == IF total > 0 THEN total \div page_size ELSE 1

\* total_pages = math.ceil(total / page_size) if total > 0 else 1
TotalPages(total, page_size) ==
    IF total > 0 THEN PyCeilDiv(total, page_size) ELSE 1

\* The order of query.sort(key): by the key, ascending or descending; documents
\* with equal keys come in _id order, the same way on every request.
SortBefore(docs, key, desc, a, b) ==
    IF docs[a][key] # docs[b][key]
    THEN IF desc THEN docs[a][key] > docs[b][key] ELSE docs[a][key] < docs[b][key]
    ELSE a < b

RECURSIVE SortIds(_, _, _, _)
SortIds(docs, ids, key, desc) ==
    IF ids = {} THEN << >>
    ELSE LET first == CHOOSE a \in ids :
                        \A b \in ids \ {a} : SortBefore(docs, key, desc, a, b)
         IN  <<first>> \o SortIds(docs, ids \ {first}, key, desc)

\* ProductFilters.build_conditions / the condition list of search_products,
\* for the stock and active-status conditions (None: the condition is absent).
CondInStock(doc, in_stock) ==
    \/ in_stock = None
    \/ in_stock = "true" /\ doc.stock > 0
    \/ in_stock = "false" /\ doc.stock = 0

CondIsActive(doc, is_active) ==
    \/ is_active = None
    \/ is_active = "true" /\ doc.is_active
    \/ is_active = "false" /\ ~doc.is_active

\* PaginatedResponse(...): the model's Field constraints are validated when the
\* response object is built; a failure is a ValidationError inside the try block,
\* which the handler's catch-all turns into its 500 response.
PaginatedResponseValid(total_pages, page, page_size) ==
    page >= 1 /\ page_size >= 1 /\ page_size <= PageSizeLimit /\ total_pages >= 1

ErrorResponse(code, text) ==
    [status |-> code, detail |-> text, total |-> 0, page |-> 0, page_size |-> 0,
     total_pages |-> 0, has_next |-> FALSE, has_prev |-> FALSE, items |-> << >>]

PaginatedResponse(total, page, page_size, total_pages, items, failure) ==
    IF PaginatedResponseValid(total_pages, page, page_size)
    THEN [status |-> 200, detail |-> "", total |-> total, page |-> page,
          page_size |-> page_size, total_pages |-> total_pages,
          has_next |-> page < total_pages, has_prev |-> page > 1,
          items |-> items]
    ELSE ErrorResponse(500, failure)

\* list_products_basic: active products, newest first
list_products_basic(docs, page, page_size) ==
    LET skip == Skip(page, page_size)
        matching == { i \in DOMAIN docs : docs[i].is_active }
        total == Cardinality(matching)
        found == SkipLimit(SortIds(docs, matching, "created_at", TRUE), skip, page_size)
        total_pages == TotalPages(total, page_size)
    IN  PaginatedResponse(total, page, page_size, total_pages, found,
                          "Failed to retrieve products")

\* filter_products: the conditions of ProductFilters, the sort of the request
filter_products(docs, in_stock, is_active, sort_by, order, page, page_size) ==
    LET skip == Skip(page, page_size)
        matching == { i \in DOMAIN docs :
                        CondInStock(docs[i], in_stock) /\ CondIsActive(docs[i], is_active) }
        total == Cardinality(matching)
        found == SkipLimit(SortIds(docs, matching, sort_by, order = "desc"),
                           skip, page_size)
        total_pages == TotalPages(total, page_size)
    IN  PaginatedResponse(total, page, page_size, total_pages, found,
                          "Failed to filter products")

\* search_products: the conditions of the request and "only active products"
search_products(docs, in_stock, sort_by, order, page, page_size) ==
    LET matching == { i \in DOMAIN docs :
                        CondInStock(docs[i], in_stock) /\ docs[i].is_active }
        total == Cardinality(matching)
        skip == Skip(page, page_size)
        total_pages == TotalPages(total, page_size)
        found == SkipLimit(SortIds(docs, matching, sort_by, order = "desc"),
                           skip, page_size)
    IN  PaginatedResponse(total, page, page_size, total_pages, found,
                          "Search operation failed")

(***************************************************************************)
(* The client of an offset traversal: it keeps the query fixed and asks    *)
(* for page nextPage while that page exists (pages 1..total_pages).        *)
(***************************************************************************)
NoResp == ErrorResponse(0, None)

SortFields == {"created_at", "stock"}
SortOrders == {"asc", "desc"}
Tri == {None, "true", "false"}

TravOf(handler, in_stock, is_active, sort_by, order, page_size) ==
    [handler |-> handler, in_stock |-> in_stock, is_active |-> is_active,
     sort_by |-> sort_by, order |-> order, page_size |-> page_size]

\* The requests a client can make of the three handlers.
Travs(sizes) ==
    { TravOf("basic", None, None, "created_at", "desc", ps) : ps \in sizes }
    \cup { TravOf("filter", None, a, s, o, ps) :
             a \in Tri, s \in SortFields, o \in SortOrders, ps \in sizes }
    \cup { TravOf("search", i, None, s, o, ps) :
             i \in Tri, s \in SortFields, o \in SortOrders, ps \in sizes }

NoTrav == TravOf(None, None, None, None, None, 0)

PageWanted == lastResp = NoResp \/ nextPage <= lastResp.total_pages

TraversalDone == lastResp # NoResp /\ nextPage > lastResp.total_pages

Receive(resp) ==
    /\ lastResp' = resp
    /\ got' = Append(got, resp.items)
    /\ nextPage' = nextPage + 1
    /\ UNCHANGED <<products, trav, cur, delivered, stable, errReq, errResp,
                   store, now, prodResp, changed, listReq, conc,
                   MOCK_USERS, MOCK_SESSIONS, VALID_API_KEYS, authResp>>

\* GET /api/products/basic?page=..&page_size=..
RequestBasic ==
    /\ trav.handler = "basic"
    /\ PageWanted
    /\ Receive(list_products_basic(products, nextPage, trav.page_size))

\* GET /api/products/filter?...
RequestFilter ==
    /\ trav.handler = "filter"
    /\ PageWanted
    /\ Receive(filter_products(products, trav.in_stock, trav.is_active,
                               trav.sort_by, trav.order, nextPage, trav.page_size))

\* GET /api/products/search?...
RequestSearch ==
    /\ trav.handler = "search"
    /\ PageWanted
    /\ Receive(search_products(products, trav.in_stock, trav.sort_by, trav.order,
                               nextPage, trav.page_size))

\* No request in flight / no response sent yet (error examples).
NoErrReq ==
    [handler |-> None, arg |-> "", block |-> 0,
     exc |-> [class |-> None, status |-> 0, detail |-> "", leak |-> None, text |-> ""],
     origin |-> [class |-> None, status |-> 0, detail |-> "", leak |-> None, text |-> ""],
     httpInTry |-> [class |-> None, status |-> 0, detail |-> "", leak |-> None, text |-> ""],
     caughtAll |-> 0]

NoErrResp == [status |-> 0, detail |-> "", leak |-> None]


(***************************************************************************)
(* Idle values of the variables a specification does not use.              *)
(***************************************************************************)
NoCur == [limit |-> 0, category |-> None, cursor |-> None, phase |-> None, churn |-> 0]

IdlePage ==
    /\ trav = NoTrav
    /\ nextPage = 0
    /\ got = << >>

IdleCursor ==
    /\ cur = NoCur
    /\ delivered = << >>
    /\ stable = {}

IdleErr ==
    /\ errReq = NoErrReq
    /\ errResp = NoErrResp

\* The body of a response that returns no product.
NoBody ==
    [quantity |-> 0, low_stock_threshold |-> 0, in_stock |-> FALSE,
     stock_status |-> None]

NoProdResp == [op |-> None, status |-> 0, id |-> 0, at |-> 0, body |-> NoBody]

IdleProd ==
    /\ store = << >>
    /\ now = 0
    /\ prodResp = NoProdResp
    /\ changed = << >>

NoListReq == [category |-> None, min_price |-> << >>, max_price |-> << >>,
              in_stock_only |-> << >>]

IdleList == listReq = NoListReq

NoConc == [initial |-> 0, reqs |-> << >>]

IdleConc == conc = NoConc

\* MOCK_USERS as the module defines it
MockUsers ==
    [username \in {"john_doe", "jane_smith"} |->
        IF username = "john_doe"
        THEN [id |-> "user-123", username |-> "john_doe",
              password |-> "hashed_password_here", role |-> "admin",
              is_active |-> TRUE]
        ELSE [id |-> "user-456", username |-> "jane_smith",
              password |-> "hashed_password_here", role |-> "user",
              is_active |-> TRUE]]

\* MOCK_SESSIONS = {}
MockSessions == << >>

\* VALID_API_KEYS = {"sk_live_1234567890", "sk_test_0987654321"}
ValidApiKeys == {"sk_live_1234567890", "sk_test_0987654321"}

NoAuthResp ==
    [route |-> None, authorization |-> << >>, access_token |-> << >>,
     status |-> 0, detail |-> "", token |-> << >>, user |-> None,
     role_checked |-> FALSE, set_cookie |-> << >>]

IdleAuth ==
    /\ MOCK_USERS = MockUsers
    /\ MOCK_SESSIONS = MockSessions
    /\ VALID_API_KEYS = ValidApiKeys
    /\ authResp = NoAuthResp

\* SpecPage: a collection of MaxProducts documents that does not change, and a
\* client that walks its pages from page 1.
PageDocs == [is_active : BOOLEAN, category : {"a"}, created_at : 0..1, stock : 0..1]

InitPage ==
    /\ products \in [1..MaxProducts -> PageDocs]
    /\ trav \in Travs(1..MaxPageSize)
    /\ nextPage = 1
    /\ got = << >>
    /\ lastResp = NoResp
    /\ IdleCursor /\ IdleErr /\ IdleProd
    /\ IdleList /\ IdleConc /\ IdleAuth

NextPage == RequestBasic \/ RequestFilter \/ RequestSearch

SpecPage == InitPage /\ [][NextPage]_vars

\* SpecMeta: the page metadata for every count up to MaxTotal, every accepted
\* page_size and the first MaxPage page numbers.
UniformDocs(total) ==
    [i \in 1..total |-> [is_active |-> TRUE, category |-> "a",
                         created_at |-> 0, stock |-> 1]]

InitMeta ==
    /\ \E total \in 0..MaxTotal : products = UniformDocs(total)
    /\ \E h \in {"basic", "filter", "search"}, ps \in 1..PageSizeLimit :
          trav = TravOf(h, None, None, "created_at", "desc", ps)
    /\ nextPage \in 1..MaxPage
    /\ got = << >>
    /\ lastResp = NoResp
    /\ IdleCursor /\ IdleErr /\ IdleProd
    /\ IdleList /\ IdleConc /\ IdleAuth

SpecMeta == InitMeta /\ [][NextPage]_vars


(***************************************************************************)
(* Cursor pagination: list_products_cursor.                                *)
(***************************************************************************)
\* str(product.id): the text form of an ObjectId
StrOfId(id) == ToString(id)

\* ObjectId(cursor): the id whose text form the cursor is; any other text raises
\* InvalidId (ok = FALSE).
ObjectId(text, ids) ==
    IF \E i \in ids : StrOfId(i) = text
    THEN [ok |-> TRUE, id |-> CHOOSE i \in ids : StrOfId(i) = text]
    ELSE [ok |-> FALSE, id |-> 0]

\* Python truthiness of an Optional[str] parameter: None and "" are false
Truthy(text) == text # None /\ text # ""

AfterCursorInclusive(id, cursor_id) == id >= cursor_id

\* Product.id > cursor_id
AfterCursor(id, cursor_id) == id > cursor_id

FirstIdCursor(kept) == StrOfId(kept[1])

\* str(products[-1].id)
LastIdCursor(kept) == StrOfId(kept[Len(kept)])

FetchCountNoExtra(limit) == limit

\* query.limit(limit + 1)
FetchCount(limit) == limit + 1

\* And(*conditions): active, and of the category when one is given
CursorConditions(doc, category) ==
    /\ doc.is_active
    /\ Truthy(category) => doc.category = category

CursorResponse(code, text, items, next_cursor, has_more, count) ==
    [status |-> code, detail |-> text, items |-> items,
     next_cursor |-> next_cursor, has_more |-> has_more, count |-> count]

\* sort("+_id"): ascending _id
RECURSIVE AscendingIds(_)
AscendingIds(ids) ==
    IF ids = {} THEN << >>
    ELSE LET first == CHOOSE a \in ids : \A b \in ids : a <= b
         IN  <<first>> \o AscendingIds(ids \ {first})

\* The body of list_products_cursor once the cursor is parsed (has_cursor is
\* false when no cursor was given).
CursorPage(docs, has_cursor, cursor_id, limit, category) ==
    LET matching == { i \in DOMAIN docs :
                        /\ CursorConditions(docs[i], category)
                        /\ has_cursor => AfterCursor(i, cursor_id) }
        fetched == SkipLimit(AscendingIds(matching), 0, FetchCount(limit))
        has_more == Len(fetched) > limit
        kept == IF has_more THEN SubSeq(fetched, 1, limit) ELSE fetched
        next_cursor == IF kept # << >> /\ has_more
                       THEN LastIdCursor(kept) ELSE None
    IN  CursorResponse(200, "", kept, next_cursor, has_more, Len(kept))

\* list_products_cursor: a cursor that is not an ObjectId raises inside the
\* inner try; its except turns that into HTTPException(400), which the outer
\* "except HTTPException: raise" passes on.
list_products_cursor(docs, cursor, limit, category, ids) ==
    IF Truthy(cursor)
    THEN IF ~ObjectId(cursor, ids).ok
         THEN CursorResponse(400, "Invalid cursor format", << >>, None, FALSE, 0)
         ELSE CursorPage(docs, TRUE, ObjectId(cursor, ids).id, limit, category)
    ELSE CursorPage(docs, FALSE, 0, limit, category)

NoCursorResp == CursorResponse(0, None, << >>, None, FALSE, 0)

CursorDocs == [is_active : BOOLEAN, category : {"a", "b"},
               created_at : {0}, stock : {0}]

\* Every collection with _ids among ids.
Collections(ids) == UNION { [present -> CursorDocs] : present \in SUBSET ids }

\* ObjectIds are 12 bytes: ids beyond those in the collection exist too.
IdSpace == 0..(MaxId + 1)

CursorTexts == {None, "", "zz"} \cup { StrOfId(i) : i \in IdSpace }

CategoryParams == {None, "", "a", "b"}

UnchangedButCursor ==
    UNCHANGED <<trav, nextPage, got, errReq, errResp, store, now, prodResp, changed,
                listReq, conc,
                MOCK_USERS, MOCK_SESSIONS, VALID_API_KEYS, authResp>>

\* GET /api/products/cursor?cursor=..&limit=..&category=..
CursorRequest ==
    /\ cur.phase = "probe"
    /\ cur' = [cur EXCEPT !.phase = "probed"]
    /\ lastResp' = list_products_cursor(products, cur.cursor, cur.limit,
                                        cur.category, IdSpace)
    /\ UNCHANGED <<products, delivered, stable>>
    /\ UnchangedButCursor

\* SpecCursor: one request with any cursor, limit and category on any collection.
InitCursor ==
    /\ products \in Collections(1..MaxId)
    /\ \E c \in CursorTexts, limit \in 1..MaxLimit, category \in CategoryParams :
          cur = [limit |-> limit, category |-> category, cursor |-> c,
                 phase |-> "probe", churn |-> 0]
    /\ delivered = << >>
    /\ stable = {}
    /\ lastResp = NoCursorResp
    /\ IdlePage /\ IdleErr /\ IdleProd
    /\ IdleList /\ IdleConc /\ IdleAuth

NextCursor == CursorRequest

SpecCursor == InitCursor /\ [][NextCursor]_vars

\* The client of a cursor traversal: the first request carries no cursor, each
\* later one the next_cursor of the response before it; limit and category stay.
WalkReceive(resp) ==
    /\ lastResp' = resp
    /\ delivered' = delivered \o resp.items
    /\ UnchangedButCursor

WalkFirst ==
    /\ cur.phase = "start"
    /\ LET resp == list_products_cursor(products, None, cur.limit, cur.category, IdSpace)
       IN  /\ WalkReceive(resp)
           /\ cur' = [cur EXCEPT !.cursor = None,
                                 !.phase = IF resp.has_more THEN "walking" ELSE "done"]
    /\ UNCHANGED <<products, stable>>

WalkNext ==
    /\ cur.phase = "walking"
    /\ LET resp == list_products_cursor(products, lastResp.next_cursor, cur.limit,
                                        cur.category, IdSpace)
       IN  /\ WalkReceive(resp)
           /\ cur' = [cur EXCEPT !.cursor = lastResp.next_cursor,
                                 !.phase = IF resp.status = 200 /\ resp.has_more
                                           THEN "walking" ELSE "done"]
    /\ UNCHANGED <<products, stable>>

InitWalk(ids) ==
    /\ products \in Collections(ids)
    /\ \E limit \in 1..MaxLimit, category \in {None, "a", "b"} :
          cur = [limit |-> limit, category |-> category, cursor |-> None,
                 phase |-> "start", churn |-> 0]
    /\ delivered = << >>
    /\ stable = DOMAIN products
    /\ lastResp = NoCursorResp
    /\ IdlePage /\ IdleErr /\ IdleProd
    /\ IdleList /\ IdleConc /\ IdleAuth

InitCursorLive == InitWalk(1..MaxWalkId)

NextCursorLive == WalkFirst \/ WalkNext

\* The client goes on asking while has_more is true.
SpecCursorLive ==
    InitCursorLive /\ [][NextCursorLive]_vars /\ WF_vars(NextCursorLive)

\* Another client inserts a product between two requests of the traversal.
InsertProduct ==
    \E id \in (1..MaxWalkId) \ DOMAIN products, doc \in CursorDocs :
        /\ cur.phase \in {"start", "walking"}
        /\ cur.churn < MaxChurn
        /\ products' = [i \in DOMAIN products \cup {id} |->
                          IF i = id THEN doc ELSE products[i]]
        /\ cur' = [cur EXCEPT !.churn = @ + 1]
        /\ UNCHANGED <<lastResp, delivered, stable>>
        /\ UnchangedButCursor

\* Another client deletes a product between two requests of the traversal.
DeleteProduct ==
    \E id \in DOMAIN products :
        /\ cur.phase \in {"start", "walking"}
        /\ cur.churn < MaxChurn
        /\ products' = [i \in DOMAIN products \ {id} |-> products[i]]
        /\ stable' = stable \ {id}
        /\ cur' = [cur EXCEPT !.churn = @ + 1]
        /\ UNCHANGED <<lastResp, delivered>>
        /\ UnchangedButCursor

InitCursorChurn == InitWalk(1..MaxWalkId)

NextCursorChurn == WalkFirst \/ WalkNext \/ InsertProduct \/ DeleteProduct

SpecCursorChurn == InitCursorChurn /\ [][NextCursorChurn]_vars


(***************************************************************************)
(* Exception handling: the try/except blocks of the handlers of            *)
(* try-except-block-best-practices, error-handling, logger and the search  *)
(* example.  A handler is a list of try blocks (block 1 is the outermost,  *)
(* parent = 0), each with its except clauses in source order, and the      *)
(* raise statements of its try bodies.                                     *)
(***************************************************************************)
NoText == ""

\* HTTPException(status_code=.., detail=..); leak is the exception text that an
\* f-string or str(e) puts into the detail, None when the detail is a literal.
HttpExc(code, text, leak) ==
    [class |-> "HTTPException", status |-> code, detail |-> text, leak |-> leak,
     text |-> NoText]

\* Any other exception, with the text str(e) gives.
Exc(class, text) ==
    [class |-> class, status |-> 0, detail |-> NoText, leak |-> None, text |-> text]

NoExc == Exc(None, NoText)

\* The exception classes that occur, and their base classes below Exception.
ExcClasses ==
    {"ValueError", "ValidationError", "OSError", "ConnectionError", "TimeoutError",
     "PermissionError", "ZeroDivisionError", "RuntimeError", "InvalidId",
     "InvalidProductIDError", "ProductNotFoundError", "InsufficientStockError",
     "httpx.TimeoutException", "httpx.HTTPStatusError", "httpx.NetworkError"}

BaseClass(class) ==
    CASE class = "ValidationError" -> "ValueError"
      [] class \in {"ConnectionError", "TimeoutError", "PermissionError"} -> "OSError"
      [] OTHER -> "Exception"

\* isinstance(e, catch) for "except catch:"
IsInstance(class, catch) ==
    \/ catch = "Exception"
    \/ class = catch
    \/ BaseClass(class) = catch

\* except clauses: "raise" as it is, or raise HTTPException(status, detail)
Reraise(catch) ==
    [catch |-> catch, when |-> None, act |-> "reraise", status |-> 0,
     detail |-> NoText, leak |-> FALSE]

Wrap(catch, code, text) ==
    [catch |-> catch, when |-> None, act |-> "raise", status |-> code,
     detail |-> text, leak |-> FALSE]

\* a clause whose detail is built from str(e)
WrapStr(catch, code, text) ==
    [catch |-> catch, when |-> None, act |-> "raise", status |-> code,
     detail |-> text, leak |-> TRUE]

\* a clause body that raises this only "if e.response.status_code == 404"
WrapWhen(catch, when, code, text) ==
    [catch |-> catch, when |-> when, act |-> "raise", status |-> code,
     detail |-> text, leak |-> FALSE]

Block(parent, clauses) == [parent |-> parent, clauses |-> clauses]

\* The usual pair: re-raise HTTPException, mask everything else.
Standard(text) == <<Reraise("HTTPException"), Wrap("Exception", 500, text)>>

TryExceptHandlers ==
    {"tryexcept.get_product_by_id", "tryexcept.create_order",
     "tryexcept.get_product_details", "tryexcept.get_weather",
     "tryexcept.upload_file", "tryexcept.create_product"}

ErrorHandlersHandlers ==
    {"handlers.create_user", "handlers.get_product", "handlers.get_order",
     "handlers.process_payment", "handlers.bad_error_handling",
     "handlers.good_error_handling"}

IntegrationHandlers ==
    {"integration.create_user", "integration.get_user",
     "integration.get_product", "integration.process_payment",
     "integration.create_order"}

LoggerHandlers == {"logger.process_item"}

LoggerIntegrationHandlers == {"logger.get_item", "logger.process_data"}

SearchHandlers ==
    {"search.list_products_basic", "search.filter_products",
     "search.search_products", "search.list_products_cursor",
     "search.autocomplete_products", "search.infinite_scroll",
     "search.faceted_search"}

Handlers ==
    TryExceptHandlers \cup ErrorHandlersHandlers \cup IntegrationHandlers
        \cup LoggerHandlers \cup LoggerIntegrationHandlers \cup SearchHandlers

TryExceptBlocks(h) ==
    CASE h = "tryexcept.get_product_by_id" ->
           <<Block(0, Standard("Internal server error"))>>
      [] h = "tryexcept.create_order" ->
           <<Block(0, Standard("Internal server error")),
             Block(1, Standard("User validation failed")),
             Block(1, Standard("Product validation failed")),
             Block(1, <<Wrap("Exception", 500, "Failed to create order")>>)>>
      [] h = "tryexcept.get_product_details" ->
           <<Block(0, <<WrapStr("InvalidProductIDError", 400, NoText),
                        WrapStr("ProductNotFoundError", 404, NoText),
                        Wrap("Exception", 500, "Internal server error")>>)>>
      [] h = "tryexcept.get_weather" ->
           <<Block(0, Standard("Internal server error")),
             Block(1, <<Wrap("httpx.TimeoutException", 504,
                             "Weather service is taking too long to respond"),
                        WrapWhen("httpx.HTTPStatusError", "404", 404,
                                 "Weather data not found for {city}"),
                        Wrap("httpx.HTTPStatusError", 502, "Weather service error"),
                        Wrap("httpx.NetworkError", 503,
                             "Weather service temporarily unavailable")>>)>>
      [] h = "tryexcept.upload_file" ->
           <<Block(0, Standard("Internal server error")),
             Block(1, <<Wrap("PermissionError", 500,
                             "File save failed - insufficient permissions"),
                        Wrap("OSError", 500, "File save failed")>>)>>
      [] h = "tryexcept.create_product" ->
           <<Block(0, Standard("Internal server error")),
             Block(1, <<WrapStr("ValidationError", 400, NoText)>>)>>
      [] OTHER -> << >>

ErrorHandlersBlocks(h) ==
    CASE h = "handlers.create_user" ->
           <<Block(0, Standard("An error occurred while creating the user"))>>
      [] h = "handlers.get_product" ->
           <<Block(0, <<Wrap("ConnectionError", 503,
                             "Service temporarily unavailable. Please try again later."),
                        Wrap("Exception", 500,
                             "An error occurred while retrieving the product")>>)>>
      [] h = "handlers.get_order" ->
           <<Block(0, Standard("An error occurred while retrieving the order"))>>
      [] h = "handlers.process_payment" ->
           <<Block(0, <<Wrap("ValueError", 402,
                             "Payment could not be processed. Please try a different card."),
                        Wrap("Exception", 500,
                             "Payment processing failed. Please try again later.")>>)>>
      [] h = "handlers.bad_error_handling" ->
           <<Block(0, <<WrapStr("Exception", 500, "Error: ")>>)>>
      [] h = "handlers.good_error_handling" ->
           <<Block(0, <<Wrap("ValueError", 400, "Invalid data provided"),
                        Wrap("ConnectionError", 503, "Service temporarily unavailable"),
                        Wrap("Exception", 500,
                             "An error occurred processing your request")>>)>>
      [] OTHER -> << >>

IntegrationBlocks(h) ==
    CASE h = "integration.create_user" ->
           <<Block(0, Standard("An error occurred while creating the user"))>>
      [] h = "integration.get_user" ->
           <<Block(0, Standard("Failed to retrieve user"))>>
      [] h = "integration.get_product" ->
           <<Block(0, <<Wrap("ConnectionError", 503,
                             "Service temporarily unavailable. Please try again later."),
                        Reraise("HTTPException"),
                        Wrap("Exception", 500,
                             "An error occurred while retrieving the product")>>)>>
      [] h = "integration.process_payment" ->
           <<Block(0, <<Wrap("ValueError", 402,
                             "Payment could not be processed. Please try a different card."),
                        Wrap("TimeoutError", 504,
                             "Payment processor is not responding. Please try again."),
                        Reraise("HTTPException"),
                        Wrap("Exception", 500, "Payment processing failed")>>)>>
      [] h = "integration.create_order" ->
           <<Block(0, Standard("Failed to create order"))>>
      [] OTHER -> << >>

LoggerBlocks(h) ==
    <<Block(0, <<WrapStr("ValueError", 400, NoText),
                 Wrap("Exception", 500, "Internal server error")>>)>>

LoggerIntegrationBlocks(h) ==
    CASE h = "logger.get_item" ->
           <<Block(0, <<WrapStr("ValueError", 400, NoText),
                        Wrap("Exception", 500, "Internal server error")>>)>>
      [] OTHER ->
           <<Block(0, <<Wrap("Exception", 500, "Processing failed")>>)>>

SearchBlocks(h) ==
    CASE h = "search.list_products_basic" ->
           <<Block(0, <<Wrap("Exception", 500, "Failed to retrieve products")>>)>>
      [] h = "search.filter_products" ->
           <<Block(0, <<Wrap("Exception", 500, "Failed to filter products")>>)>>
      [] h = "search.search_products" ->
           <<Block(0, <<Wrap("Exception", 500, "Search operation failed")>>)>>
      [] h = "search.list_products_cursor" ->
           <<Block(0, Standard("Failed to retrieve products")),
             Block(1, <<Wrap("Exception", 400, "Invalid cursor format")>>)>>
      [] h = "search.autocomplete_products" ->
           <<Block(0, <<Wrap("Exception", 500, "Autocomplete failed")>>)>>
      [] h = "search.infinite_scroll" ->
           <<Block(0, Standard("Failed to load more items")),
             Block(1, <<Wrap("Exception", 400, "Invalid last_id")>>)>>
      [] OTHER ->
           <<Block(0, <<Wrap("Exception", 500, "Faceted search failed")>>)>>

HandlerBlocks(h) ==
    CASE h \in TryExceptHandlers -> TryExceptBlocks(h)
      [] h \in ErrorHandlersHandlers -> ErrorHandlersBlocks(h)
      [] h \in IntegrationHandlers -> IntegrationBlocks(h)
      [] h \in LoggerHandlers -> LoggerBlocks(h)
      [] h \in LoggerIntegrationHandlers -> LoggerIntegrationBlocks(h)
      [] OTHER -> SearchBlocks(h)

Site(block, exc) == [block |-> block, exc |-> exc]

\* The raise statements inside the try bodies (not those of except clauses).
TryExceptRaises(h) ==
    CASE h = "tryexcept.get_product_by_id" ->
           {Site(1, HttpExc(400, "Invalid product ID format", None)),
            Site(1, HttpExc(404, "Product {product_id} not found", None))}
      [] h = "tryexcept.create_order" ->
           {Site(2, HttpExc(404, "User not found", None)),
            Site(3, HttpExc(404, "Product not found", None)),
            Site(3, HttpExc(400, "Insufficient stock. Available: {product.stock}", None))}
      [] h = "tryexcept.upload_file" ->
           {Site(1, HttpExc(400, "No file provided", None)),
            Site(1, HttpExc(400, "File too large. Max size: {max_size} bytes", None))}
      [] h = "tryexcept.create_product" ->
           {Site(1, HttpExc(400, "Price must be at least $0.01", None))}
      [] h = "tryexcept.get_weather" ->
           {Site(2, Exc("httpx.HTTPStatusError", "404")),
            Site(2, Exc("httpx.HTTPStatusError", "500"))}
      [] OTHER -> {}

ErrorHandlersRaises(h) ==
    CASE h = "handlers.create_user" ->
           {Site(1, HttpExc(400, "Invalid email format", None)),
            Site(1, HttpExc(400, "Password must be at least 8 characters", None))}
      [] h = "handlers.get_product" ->
           {Site(1, Exc("ConnectionError", "Database connection timeout"))}
      [] h = "handlers.get_order" ->
           {Site(1, HttpExc(404, "Order {order_id} not found", None))}
      [] h = "handlers.process_payment" ->
           {Site(1, Exc("ValueError", "Payment gateway rejected transaction"))}
      [] h = "handlers.bad_error_handling" ->
           {Site(1, Exc("ZeroDivisionError", "division by zero"))}
      [] OTHER -> {}

IntegrationRaises(h) ==
    CASE h = "integration.create_user" ->
           {Site(1, HttpExc(400, "Invalid email format", None)),
            Site(1, HttpExc(400, "Password must be at least 8 characters", None)),
            Site(1, HttpExc(400, "Must be 18 or older to register", None))}
      [] h = "integration.get_user" ->
           {Site(1, HttpExc(404, "User {user_id} not found", None))}
      [] h = "integration.get_product" ->
           {Site(1, Exc("ConnectionError", "Database connection timeout"))}
      [] h = "integration.process_payment" ->
           {Site(1, Exc("ValueError", "Payment gateway rejected: amount too large")),
            Site(1, Exc("TimeoutError", "Payment gateway timeout"))}
      [] h = "integration.create_order" ->
           {Site(1, HttpExc(409, "Only {stock} items available", None)),
            Site(1, HttpExc(404, "User not found", None))}
      [] OTHER -> {}

LoggerRaises(h) == {Site(1, Exc("ValueError", "Item ID must be positive"))}

LoggerIntegrationRaises(h) ==
    CASE h = "logger.get_item" ->
           {Site(1, Exc("ValueError", "Item ID must be positive"))}
      [] OTHER -> {}

HandlerRaises(h) ==
    CASE h \in TryExceptHandlers -> TryExceptRaises(h)
      [] h \in ErrorHandlersHandlers -> ErrorHandlersRaises(h)
      [] h \in IntegrationHandlers -> IntegrationRaises(h)
      [] h \in LoggerHandlers -> LoggerRaises(h)
      [] h \in LoggerIntegrationHandlers -> LoggerIntegrationRaises(h)
      [] OTHER -> {}


\* Texts of the exceptions that library calls raise.
ExcTexts == {"boom", "secret"}

LastMatch(clauses, exc) ==
    LET hits == { i \in 1..Len(clauses) :
                    /\ IsInstance(exc.class, clauses[i].catch)
                    /\ clauses[i].when \in {None, exc.text} }
    IN  IF hits = {} THEN 0 ELSE CHOOSE i \in hits : \A j \in hits : j <= i

\* The first except clause, in source order, that handles the exception (0: none).
FirstMatch(clauses, exc) ==
    LET hits == { i \in 1..Len(clauses) :
                    /\ IsInstance(exc.class, clauses[i].catch)
                    /\ clauses[i].when \in {None, exc.text} }
    IN  IF hits = {} THEN 0 ELSE CHOOSE i \in hits : \A j \in hits : i <= j

ClauseRaisesStr(clause, exc) ==
    IF clause.act = "reraise" THEN exc
    ELSE HttpExc(clause.status, clause.detail, exc.text)

\* What leaves an except clause: the same exception, or the HTTPException it raises.
ClauseRaises(clause, exc) ==
    IF clause.act = "reraise" THEN exc
    ELSE HttpExc(clause.status, clause.detail,
                 IF clause.leak THEN exc.text ELSE None)

InvalidProductIdShort(product_id) == product_id = "" \/ Len(product_id) < 2

\* not product_id or len(product_id) < 3
InvalidProductId(product_id) == product_id = "" \/ Len(product_id) < 3

\* get_product_or_fail: what it raises (the simulated query finds no product)
get_product_or_fail(product_id) ==
    IF InvalidProductId(product_id)
    THEN Exc("InvalidProductIDError", "Invalid product ID: {product_id}")
    ELSE Exc("ProductNotFoundError", "Product {product_id} not found")

ProductIdArgs == {"", "a", "ab", "abc", "abcd"}

\* Handlers whose try body is a single statement that always raises (1 / 0).
AlwaysRaises == {"handlers.bad_error_handling"}

IsHttp(exc) == exc.class = "HTTPException"

Entered(h, arg, block, exc) ==
    [handler |-> h, arg |-> arg, block |-> block, exc |-> exc, origin |-> exc,
     httpInTry |-> IF IsHttp(exc) /\ block > 0 THEN exc ELSE NoExc,
     caughtAll |-> 0]

UnchangedButErr ==
    UNCHANGED <<products, trav, nextPage, got, lastResp, cur, delivered, stable,
                store, now, prodResp, changed, listReq, conc,
                MOCK_USERS, MOCK_SESSIONS, VALID_API_KEYS, authResp>>

\* A request to a handler whose try body returns, or raises at one of its raise
\* statements, or in which a library call of one of its try bodies raises.
Call ==
    \E h \in Handlers \ {"tryexcept.get_product_details"} :
        /\ errReq = NoErrReq
        /\ \/ /\ h \notin AlwaysRaises
              /\ errReq' = Entered(h, "", 0, NoExc)
           \/ \E site \in HandlerRaises(h) :
                 errReq' = Entered(h, "", site.block, site.exc)
           \/ /\ h \notin AlwaysRaises
              /\ \E b \in 1..Len(HandlerBlocks(h)), c \in ExcClasses, t \in ExcTexts :
                    errReq' = Entered(h, "", b, Exc(c, t))
        /\ UNCHANGED errResp
        /\ UnchangedButErr

\* GET /api/products/{product_id}/details: get_product_or_fail raises its domain
\* exception, or the query that follows the id check fails.
CallProductDetails ==
    \E product_id \in ProductIdArgs :
        /\ errReq = NoErrReq
        /\ \/ errReq' = Entered("tryexcept.get_product_details", product_id, 1,
                                get_product_or_fail(product_id))
           \/ /\ ~InvalidProductId(product_id)
              /\ \E c \in ExcClasses \ {"InvalidProductIDError", "ProductNotFoundError"},
                    t \in ExcTexts :
                    errReq' = Entered("tryexcept.get_product_details", product_id, 1,
                                      Exc(c, t))
        /\ UNCHANGED errResp
        /\ UnchangedButErr

\* The exception reaches the except clauses of the try block around it; what
\* the handling clause raises (or the exception itself, when none handles it)
\* goes on to the enclosing block.
Propagate ==
    /\ errReq.block > 0
    /\ errResp = NoErrResp
    /\ LET blk == HandlerBlocks(errReq.handler)[errReq.block]
           idx == FirstMatch(blk.clauses, errReq.exc)
           out == IF idx = 0 THEN errReq.exc
                  ELSE ClauseRaises(blk.clauses[idx], errReq.exc)
       IN  errReq' = [errReq EXCEPT
                        !.block = blk.parent,
                        !.exc = out,
                        !.httpInTry = IF @ = NoExc /\ IsHttp(out) /\ blk.parent > 0
                                      THEN out ELSE @,
                        !.caughtAll = IF idx > 0 /\ blk.clauses[idx].catch = "Exception"
                                      THEN errReq.block ELSE @]
    /\ UNCHANGED errResp
    /\ UnchangedButErr

\* The framework answers: the handler's return value, the HTTPException that
\* left the handler, or its own 500 for any other exception.
Respond ==
    /\ errReq # NoErrReq
    /\ errReq.block = 0
    /\ errResp = NoErrResp
    /\ errResp' = IF errReq.exc = NoExc
                  THEN [status |-> 200, detail |-> NoText, leak |-> None]
                  ELSE IF IsHttp(errReq.exc)
                  THEN [status |-> errReq.exc.status, detail |-> errReq.exc.detail,
                        leak |-> errReq.exc.leak]
                  ELSE [status |-> 500, detail |-> "Internal Server Error",
                        leak |-> None]
    /\ UNCHANGED errReq
    /\ UnchangedButErr

InitErr ==
    /\ errReq = NoErrReq
    /\ errResp = NoErrResp
    /\ products = << >>
    /\ lastResp = NoResp
    /\ IdlePage /\ IdleCursor /\ IdleProd
    /\ IdleList /\ IdleConc /\ IdleAuth

NextErr == Call \/ CallProductDetails \/ Propagate \/ Respond

SpecErr == InitErr /\ [][NextErr]_vars


(***************************************************************************)
(* Computed fields: the Product document and its routes.  A document holds *)
(* the stored fields the routes compute with (name and category are only   *)
(* normalised and stored); money is counted in cents, on which             *)
(* round(v, 2) changes nothing.                                            *)
(***************************************************************************)
\* low_stock_threshold: int = Field(default=5, ge=0)
DefaultThreshold == 5

\* The _ids of the collection: each route addresses one document.
ProdIds == {1}

Thresholds == {1, DefaultThreshold}

update_timestamp_skip(doc, t) == doc

\* @model_validator(mode='after') update_timestamp
update_timestamp(doc, t) == [doc EXCEPT !.last_updated = t]

\* @model_validator(mode='after') validate_profit_margin: TRUE when it passes
validate_profit_margin(doc) == ~(doc.price < doc.cost)

\* Field(..., gt=0) / Field(..., ge=0) of Product
FieldsValid(doc) ==
    /\ doc.price > 0
    /\ doc.cost > 0
    /\ doc.quantity >= 0
    /\ doc.low_stock_threshold >= 0

\* Product.model_validate(data) at time t: the field constraints, then the
\* model validators in the order of their definition.  ok = FALSE stands for
\* the ValidationError.
ModelValidate(data, t) ==
    [ok |-> FieldsValid(data) /\ validate_profit_margin(update_timestamp(data, t)),
     doc |-> update_timestamp(data, t)]

\* Product(**product_data.model_dump()): last_updated takes its default_factory
\* value and the validators run.
NewProduct(price, cost, quantity, threshold, t) ==
    ModelValidate([price |-> price, cost |-> cost, quantity |-> quantity,
                   low_stock_threshold |-> threshold, last_updated |-> t], t)

\* await Product.get(product_id): None when there is no such document, else the
\* document parsed by model_validate.
ProductGet(id, t) ==
    IF id \in DOMAIN store
    THEN [found |-> TRUE] @@ ModelValidate(store[id], t)
    ELSE [found |-> FALSE, ok |-> TRUE, doc |-> << >>]

\* product.insert() / product.save(): every field of the instance is written,
\* without validation (validate_on_save is off).
Saved(id, doc) == [i \in DOMAIN store \cup {id} |-> IF i = id THEN doc ELSE store[i]]

\* for field, value in update_dict.items(): setattr(product, field, value)
\* (assignment is not validated)
SetAttrs(doc, update_dict) ==
    [k \in DOMAIN doc |-> IF k \in DOMAIN update_dict THEN update_dict[k] ELSE doc[k]]

\* ProductUpdate: any subset of the fields, each within its Field constraint
UpdateFieldValues(k) ==
    CASE k = "price" -> 1..MaxMoney
      [] k = "cost" -> 1..MaxMoney
      [] k = "quantity" -> 0..MaxQty
      [] OTHER -> Thresholds

UpdateDicts ==
    UNION { { u \in [fields -> 0..(MaxMoney + MaxQty + DefaultThreshold)] :
                \A k \in fields : u[k] \in UpdateFieldValues(k) } :
            fields \in SUBSET {"price", "cost", "quantity", "low_stock_threshold"} }

\* @computed_field in_stock
in_stock(doc) == doc.quantity > 0

stock_status_strict(doc) ==
    IF doc.quantity = 0 THEN "out_of_stock"
    ELSE IF doc.quantity < doc.low_stock_threshold THEN "low_stock"
    ELSE "in_stock"

\* @computed_field stock_status
stock_status(doc) ==
    IF doc.quantity = 0 THEN "out_of_stock"
    ELSE IF doc.quantity <= doc.low_stock_threshold THEN "low_stock"
    ELSE "in_stock"

\* response_model=ProductResponse: the stock fields of the returned product and
\* the computed fields read from it when it is serialised.
Serialized(doc) ==
    [quantity |-> doc.quantity, low_stock_threshold |-> doc.low_stock_threshold,
     in_stock |-> in_stock(doc), stock_status |-> stock_status(doc)]

ProdResponse(op, code, id, body) ==
    [op |-> op, status |-> code, id |-> id, at |-> now, body |-> body]

\* What list_products leaves alone besides the collection.
UnchangedButList ==
    UNCHANGED <<products, trav, nextPage, got, lastResp, cur, delivered, stable,
                errReq, errResp, conc, MOCK_USERS, MOCK_SESSIONS, VALID_API_KEYS,
                authResp>>

UnchangedButProd ==
    /\ UnchangedButList
    /\ UNCHANGED listReq

Answer(op, code, id) ==
    /\ prodResp' = ProdResponse(op, code, id, NoBody)
    /\ UNCHANGED <<store, changed, now>>
    /\ UnchangedButProd

Written(op, code, id, doc) ==
    /\ prodResp' = ProdResponse(op, code, id, Serialized(doc))
    /\ store' = Saved(id, doc)
    /\ changed' = [i \in DOMAIN changed \cup {id} |-> IF i = id THEN now ELSE changed[i]]
    /\ UNCHANGED now
    /\ UnchangedButProd

\* POST /products/ : a ValidationError of Product(...) is not handled (500)
create_product ==
    \E id \in ProdIds \ DOMAIN changed,
       price \in 1..MaxMoney, cost \in 1..MaxMoney,
       quantity \in 0..MaxQty, threshold \in Thresholds :
        LET product == NewProduct(price, cost, quantity, threshold, now)
        IN  IF product.ok
            THEN Written("create", 201, id, product.doc)
            ELSE Answer("create", 500, id)

\* GET /products/{product_id}
get_product ==
    \E id \in ProdIds :
        LET product == ProductGet(id, now)
        IN  IF ~product.found THEN Answer("get", 404, id)
            ELSE IF ~product.ok THEN Answer("get", 500, id)
            ELSE /\ prodResp' = ProdResponse("get", 200, id, Serialized(product.doc))
                 /\ UNCHANGED <<store, changed, now>>
                 /\ UnchangedButProd

\* PUT /products/{product_id}
update_product ==
    \E id \in ProdIds, update_dict \in UpdateDicts :
        LET product == ProductGet(id, now)
        IN  IF ~product.found THEN Answer("update", 404, id)
            ELSE IF ~product.ok THEN Answer("update", 500, id)
            ELSE Written("update", 200, id, SetAttrs(product.doc, update_dict))

\* DELETE /products/{product_id}
delete_product ==
    \E id \in ProdIds :
        LET product == ProductGet(id, now)
        IN  IF ~product.found THEN Answer("delete", 404, id)
            ELSE IF ~product.ok THEN Answer("delete", 500, id)
            ELSE /\ prodResp' = ProdResponse("delete", 204, id, NoBody)
                 /\ store' = [i \in DOMAIN store \ {id} |-> store[i]]
                 /\ UNCHANGED <<changed, now>>
                 /\ UnchangedButProd

NegativeStockAllowed(new_quantity) == FALSE

\* if new_quantity < 0
NegativeStock(new_quantity) == new_quantity < 0

\* POST /products/{product_id}/adjust-stock with one adjustment
AdjustStock(id, adjustment) ==
    LET product == ProductGet(id, now)
        new_quantity == product.doc.quantity + adjustment
    IN  IF ~product.found THEN Answer("adjust", 404, id)
        ELSE IF ~product.ok THEN Answer("adjust", 500, id)
        ELSE IF NegativeStock(new_quantity) THEN Answer("adjust", 400, id)
        ELSE /\ new_quantity <= MaxQty
             /\ Written("adjust", 200, id,
                        [product.doc EXCEPT !.quantity = new_quantity])

\* StockAdjustment.adjustment: int
Adjustments == (0 - MaxQty)..MaxQty

\* POST /products/{product_id}/adjust-stock
adjust_stock ==
    \E id \in ProdIds, adjustment \in Adjustments : AdjustStock(id, adjustment)

\* Time passes between two requests.
Tick ==
    /\ now < MaxTime
    /\ now' = now + 1
    /\ UNCHANGED <<store, prodResp, changed>>
    /\ UnchangedButProd

InitProd ==
    /\ store = << >>
    /\ now = 0
    /\ prodResp = NoProdResp
    /\ changed = << >>
    /\ products = << >>
    /\ lastResp = NoResp
    /\ IdlePage /\ IdleCursor /\ IdleErr
    /\ IdleList /\ IdleConc /\ IdleAuth

NextProd ==
    \/ create_product
    \/ get_product
    \/ update_product
    \/ delete_product
    \/ adjust_stock
    \/ Tick

SpecProd == InitProd /\ [][NextProd]_vars


(***************************************************************************)
(* GET /products/ : list_products of the computed-field example.  An       *)
(* absent Optional query parameter is the empty tuple, a given one <<v>>.  *)
(***************************************************************************)
Absent == << >>

Given(v) == <<v>>

QuantityQueryGte(in_stock_only, doc) ==
    IF in_stock_only = Given(TRUE) THEN doc.quantity >= 0
    ELSE IF in_stock_only = Given(FALSE) THEN doc.quantity = 0
    ELSE TRUE

\* query["quantity"] = {"$gt": 0} / query["quantity"] = 0
QuantityQuery(in_stock_only, doc) ==
    IF in_stock_only = Given(TRUE) THEN doc.quantity > 0
    ELSE IF in_stock_only = Given(FALSE) THEN doc.quantity = 0
    ELSE TRUE

\* query["category"] = category, only "if category"
CategoryQuery(category, doc) ==
    category \in {None, ""} \/ doc.category = category

\* query["price"] = {"$gte": min_price, "$lte": max_price}
PriceQuery(min_price, max_price, doc) ==
    /\ min_price = Absent \/ doc.price >= min_price[1]
    /\ max_price = Absent \/ doc.price <= max_price[1]

\* The documents Product.find(query) selects.
FindIds(category, min_price, max_price, in_stock_only) ==
    { i \in DOMAIN store :
        /\ CategoryQuery(category, store[i])
        /\ PriceQuery(min_price, max_price, store[i])
        /\ QuantityQuery(in_stock_only, store[i]) }

ListedProduct(i, doc) == [id |-> i] @@ Serialized(doc)

\* list_products: the count, then the page in _id order; to_list() parses every
\* document of the page and one that fails validate_profit_margin makes the
\* request fail.
ListProducts(category, min_price, max_price, in_stock_only, page, page_size) ==
    LET found == FindIds(category, min_price, max_price, in_stock_only)
        total == Cardinality(found)
        skip == (page - 1) * page_size
        ids == SkipLimit(AscendingIds(found), skip, page_size)
        parsed == [k \in 1..Len(ids) |-> ModelValidate(store[ids[k]], now)]
    IN  IF \E k \in 1..Len(ids) : ~parsed[k].ok
        THEN ProdResponse("list", 500, 0, NoBody)
        ELSE ProdResponse("list", 200, 0,
                 [total |-> total, page |-> page, page_size |-> page_size,
                  products |-> [k \in 1..Len(ids) |->
                                   ListedProduct(ids[k], parsed[k].doc)]])

ListIds == {1, 2}

ListCategories == {"A", "B"}

CategoryArgs == {None, "", "A"}

PriceArgs == {Absent, Given(2)}

InStockOnlyArgs == {Absent, Given(TRUE), Given(FALSE)}

\* The request of the last list_products call.
ListRequest(category, min_price, max_price, in_stock_only) ==
    [category |-> category, min_price |-> min_price, max_price |-> max_price,
     in_stock_only |-> in_stock_only]

list_products ==
    \E category \in CategoryArgs, min_price \in PriceArgs, max_price \in PriceArgs,
       in_stock_only \in InStockOnlyArgs, page \in 1..MaxPage,
       page_size \in 1..MaxPageSize :
        /\ prodResp' = ListProducts(category, min_price, max_price, in_stock_only,
                                    page, page_size)
        /\ listReq' = ListRequest(category, min_price, max_price, in_stock_only)
        /\ UNCHANGED <<store, now, changed>>
        /\ UnchangedButList

\* Stored documents: every field within its constraint; price below cost is
\* what update_product can leave behind.
ListDocs ==
    [price : 1..MaxMoney, cost : 1..MaxMoney, quantity : 0..MaxQty,
     low_stock_threshold : {DefaultThreshold}, last_updated : {0},
     category : ListCategories]

InitList ==
    /\ \E ids \in SUBSET ListIds : store \in [ids -> ListDocs]
    /\ now = 0
    /\ prodResp = NoProdResp
    /\ changed = << >>
    /\ products = << >>
    /\ lastResp = NoResp
    /\ IdlePage /\ IdleCursor /\ IdleErr
    /\ IdleList /\ IdleConc /\ IdleAuth

\* One query on each collection.
NextList == prodResp = NoProdResp /\ list_products

SpecList == InitList /\ [][NextList]_vars


(***************************************************************************)
(* Headers, cookies and dependencies: header-cookie-depends-best-practices.*)
(* A string is a sequence of pieces: the piece "Bearer " and pieces that   *)
(* neither contain it nor form it when put next to each other, so that     *)
(* startswith and replace act on pieces as they act on characters.         *)
(***************************************************************************)
BearerPrefix == "Bearer "

\* if <string>: None and "" are both false
NonEmpty(opt) == opt # Absent /\ opt[1] # << >>

\* authorization.startswith("Bearer ")
StartsWithBearer(text) == Len(text) > 0 /\ text[1] = BearerPrefix

RemovePrefix(text) == Tail(text)

\* authorization.replace("Bearer ", ""): every occurrence is removed
RECURSIVE ReplaceBearer(_)
ReplaceBearer(text) ==
    IF text = << >> THEN << >>
    ELSE IF Head(text) = BearerPrefix THEN ReplaceBearer(Tail(text))
    ELSE <<Head(text)>> \o ReplaceBearer(Tail(text))

AuthFailure(code, detail) == [ok |-> FALSE, status |-> code, detail |-> detail]

\* get_token: the token, or the HTTPException it raises
get_token(authorization, access_token) ==
    LET token == IF NonEmpty(authorization) THEN ReplaceBearer(authorization[1])
                 ELSE IF NonEmpty(access_token) THEN access_token[1]
                 ELSE << >>
    IN  IF NonEmpty(authorization) /\ ~StartsWithBearer(authorization[1])
        THEN AuthFailure(401, "Invalid authorization header format. Use: Bearer <token>")
        ELSE IF token = << >>
        THEN AuthFailure(401, "Not authenticated. Provide token in header or cookie.")
        ELSE [ok |-> TRUE, token |-> token]

\* What an HTTPException of a dependency, or its return value, leaves in the
\* response record.
TokenOutcome(route, authorization, access_token, got_token) ==
    [NoAuthResp EXCEPT
        !.route = route,
        !.authorization = authorization,
        !.access_token = access_token,
        !.status = IF got_token.ok THEN 200 ELSE got_token.status,
        !.detail = IF got_token.ok THEN "" ELSE got_token.detail,
        !.token = IF got_token.ok THEN got_token.token ELSE << >>]

UnchangedButAuth ==
    UNCHANGED <<products, trav, nextPage, got, lastResp, cur, delivered, stable,
                errReq, errResp, store, now, prodResp, changed, listReq, conc>>

\* SpecToken: get_token on every header and cookie of up to MaxHeaderLen pieces.
Pieces == {BearerPrefix, "abc", "xyz"}

Texts == UNION { [1..n -> Pieces] : n \in 0..MaxHeaderLen }

OptionalTexts == {Absent} \cup { Given(t) : t \in Texts }

CallGetToken ==
    /\ authResp.route = None
    /\ authResp' = TokenOutcome("get_token", authResp.authorization,
                                authResp.access_token,
                                get_token(authResp.authorization,
                                          authResp.access_token))
    /\ UNCHANGED <<MOCK_USERS, MOCK_SESSIONS, VALID_API_KEYS>>
    /\ UnchangedButAuth

InitToken ==
    /\ \E authorization \in OptionalTexts, access_token \in OptionalTexts :
          authResp = [NoAuthResp EXCEPT !.authorization = authorization,
                                        !.access_token = access_token]
    /\ MOCK_USERS = MockUsers
    /\ MOCK_SESSIONS = MockSessions
    /\ VALID_API_KEYS = ValidApiKeys
    /\ products = << >>
    /\ lastResp = NoResp
    /\ IdlePage /\ IdleCursor /\ IdleErr /\ IdleProd /\ IdleList /\ IdleConc

NextToken == CallGetToken

SpecToken == InitToken /\ [][NextToken]_vars


(***************************************************************************)
(* The protected routes: get_token, get_current_user and RoleChecker in    *)
(* front of the handlers, login and logout.  A token is a text of one      *)
(* piece; what jwt.decode makes of it is read off the piece.               *)
(***************************************************************************)
UserRoleValues == {"admin", "moderator", "user"}

\* The names the module jwt (PyJWT: encode / decode at module level) defines,
\* as far as this file uses the module.
JwtAttributes ==
    {"encode", "decode", "ExpiredSignatureError", "InvalidTokenError",
     "DecodeError", "PyJWTError"}

\* create_access_token(user_id): a signed token that carries user_id and expires
\* ACCESS_TOKEN_EXPIRE_MINUTES later
create_access_token(user_id) == <<"jwt:" \o user_id>>

TokenPieces ==
    {"jwt:user-123", "jwt:user-456", "jwt:user-999", "jwt:no-user-id",
     "jwt:expired", "garbage"}

\* jwt.decode(token, SECRET_KEY, algorithms=[ALGORITHM]): the payload, or the
\* exception class it raises
jwt_decode(token) ==
    IF Len(token) # 1 \/ token[1] \notin TokenPieces \ {"garbage"}
    THEN [raises |-> "DecodeError", user_id |-> None]
    ELSE IF token[1] = "jwt:expired"
    THEN [raises |-> "ExpiredSignatureError", user_id |-> None]
    ELSE IF token[1] = "jwt:no-user-id"
    THEN [raises |-> None, user_id |-> None]
    ELSE [raises |-> None,
          user_id |-> CHOOSE id \in {"user-123", "user-456", "user-999"} :
                         create_access_token(id) = token]

\* for username, data in MOCK_USERS.items(): if data["id"] == user_id
FindUser(users, user_id) ==
    IF \E username \in DOMAIN users : users[username].id = user_id
    THEN CHOOSE username \in DOMAIN users : users[username].id = user_id
    ELSE None

\* The try body of get_current_user: the user it returns or what it raises.
CurrentUserTry(token, users) ==
    LET decoded == jwt_decode(token)
        username == FindUser(users, decoded.user_id)
    IN  IF decoded.raises # None
        THEN [ok |-> FALSE, raises |-> decoded.raises, status |-> 0, detail |-> ""]
        ELSE IF decoded.user_id = None
        THEN [ok |-> FALSE, raises |-> "HTTPException", status |-> 401,
              detail |-> "Invalid token payload"]
        ELSE IF username = None
        THEN [ok |-> FALSE, raises |-> "HTTPException", status |-> 401,
              detail |-> "User not found"]
        ELSE IF ~users[username].is_active
        THEN [ok |-> FALSE, raises |-> "HTTPException", status |-> 403,
              detail |-> "Account is inactive"]
        ELSE [ok |-> TRUE, user |-> username]

\* The except clauses of get_current_user, in order.  Python evaluates the
\* class of a clause when it comes to it: a name the module does not define
\* raises AttributeError there, which nothing catches.
get_current_user(token, users) ==
    LET tried == CurrentUserTry(token, users)
    IN  IF tried.ok THEN tried
        ELSE IF tried.raises = "ExpiredSignatureError"
        THEN AuthFailure(401, "Token has expired")
        ELSE IF "JWTError" \notin JwtAttributes
        THEN AuthFailure(500, "Internal Server Error")
        ELSE IF tried.raises = "HTTPException"
        THEN AuthFailure(tried.status, tried.detail)
        ELSE AuthFailure(401, "Invalid token")

require_admin == {"admin"}

require_moderator == {"admin", "moderator"}

RoleAllowedAlways(role, allowed_roles) == TRUE

\* RoleChecker.__call__: current_user.role in self.allowed_roles
RoleAllowed(role, allowed_roles) == role \in allowed_roles

\* A route behind Depends(get_current_user), with the roles a RoleChecker or
\* the handler itself asks for (UserRoleValues: no role check).
Protected(route, authorization, access_token, allowed_roles, role_dependency) ==
    LET got_token == get_token(authorization, access_token)
        base == TokenOutcome(route, authorization, access_token, got_token)
        current == get_current_user(got_token.token, MOCK_USERS)
    IN  IF ~got_token.ok THEN base
        ELSE IF ~current.ok
        THEN [base EXCEPT !.status = current.status, !.detail = current.detail]
        ELSE IF ~RoleAllowed(MOCK_USERS[current.user].role, allowed_roles)
        THEN [base EXCEPT !.status = 403,
                          !.detail = IF role_dependency
                                     THEN "Access denied. Required roles: {allowed_roles}"
                                     ELSE "Admin access required",
                          !.user = current.user,
                          !.role_checked = TRUE]
        ELSE [base EXCEPT !.status = 200, !.user = current.user,
                          !.role_checked = allowed_roles # UserRoleValues]

AuthHeaders ==
    {Absent, Given(<< >>)}
        \cup { Given(<<BearerPrefix, piece>>) : piece \in TokenPieces }
        \cup { Given(<<piece>>) : piece \in TokenPieces }

AuthCookies == {Absent} \cup { Given(<<piece>>) : piece \in TokenPieces }

ModuleStateUnchanged == UNCHANGED <<MOCK_USERS, MOCK_SESSIONS, VALID_API_KEYS>>

ProtectedRoute(route, allowed_roles, role_dependency) ==
    \E authorization \in AuthHeaders, access_token \in AuthCookies :
        /\ authResp' = Protected(route, authorization, access_token, allowed_roles,
                                 role_dependency)
        /\ ModuleStateUnchanged
        /\ UnchangedButAuth

\* GET /api/protected/profile
get_profile == ProtectedRoute("get_profile", UserRoleValues, FALSE)

\* GET /api/protected/admin-only: if current_user.role != UserRole.admin
admin_only == ProtectedRoute("admin_only", {"admin"}, FALSE)

\* GET /api/items
list_items == ProtectedRoute("list_items", UserRoleValues, FALSE)

\* DELETE /api/posts/{post_id}: Depends(require_admin)
delete_post == ProtectedRoute("delete_post", require_admin, TRUE)

\* POST /api/posts/{post_id}/approve: Depends(require_moderator)
approve_post == ProtectedRoute("approve_post", require_moderator, TRUE)

\* GET /api/protected/api-key: Depends(verify_api_key)
api_key_route ==
    \E x_api_key \in {"sk_live_1234567890", "sk_none_0000000000"} :
        /\ authResp' = [NoAuthResp EXCEPT
                          !.route = "api_key_route",
                          !.status = IF x_api_key \in VALID_API_KEYS THEN 200 ELSE 403,
                          !.detail = IF x_api_key \in VALID_API_KEYS THEN ""
                                     ELSE "Invalid API key"]
        /\ ModuleStateUnchanged
        /\ UnchangedButAuth

LoginSessionsStored(sessions, token, user_id) ==
    [t \in DOMAIN sessions \cup {token} |-> IF t = token THEN user_id ELSE sessions[t]]

\* login keeps nothing on the server: the token only goes into the cookie
LoginSessions(sessions, token, user_id) == sessions

\* POST /api/auth/login
login ==
    \E username \in {"john_doe", "jane_smith", "nobody"},
       password \in {"hashed_password_here", "password123"} :
        LET known == username \in DOMAIN MOCK_USERS
            access_token == create_access_token(MOCK_USERS[username].id)
            base == [NoAuthResp EXCEPT !.route = "login"]
        IN  /\ IF ~known \/ MOCK_USERS[username].password # password
               THEN /\ authResp' = [base EXCEPT !.status = 401,
                                       !.detail = "Incorrect username or password"]
                    /\ UNCHANGED MOCK_SESSIONS
               ELSE IF ~MOCK_USERS[username].is_active
               THEN /\ authResp' = [base EXCEPT !.status = 403,
                                       !.detail = "Account is inactive"]
                    /\ UNCHANGED MOCK_SESSIONS
               ELSE /\ authResp' = [base EXCEPT !.status = 200,
                                       !.token = access_token,
                                       !.user = username,
                                       !.set_cookie = Given(access_token)]
                    /\ MOCK_SESSIONS' = LoginSessions(MOCK_SESSIONS, access_token,
                                                      MOCK_USERS[username].id)
            /\ UNCHANGED <<MOCK_USERS, VALID_API_KEYS>>
            /\ UnchangedButAuth

\* POST /api/auth/logout: response.delete_cookie("access_token")
logout ==
    /\ authResp' = [NoAuthResp EXCEPT !.route = "logout", !.status = 200,
                                      !.set_cookie = Given(<< >>)]
    /\ ModuleStateUnchanged
    /\ UnchangedButAuth

\* GET /api/database/query: Depends(get_db), Depends(get_current_user)
query_database == ProtectedRoute("query_database", UserRoleValues, FALSE)

\* The handlers that use neither the token dependencies nor the module state
\* (headers, cookies, settings), answering their request.
OtherRoutes ==
    {"read_user_agent", "read_optional_headers", "custom_header_name", "get_theme",
     "set_theme", "get_preferences", "get_cart", "get_config", "root"}

other_route ==
    \E route \in OtherRoutes :
        /\ authResp' = [NoAuthResp EXCEPT !.route = route, !.status = 200]
        /\ ModuleStateUnchanged
        /\ UnchangedButAuth

NextAuth ==
    \/ query_database
    \/ other_route
    \/ get_profile
    \/ admin_only
    \/ list_items
    \/ delete_post
    \/ approve_post
    \/ api_key_route
    \/ login
    \/ logout

IdleButAuth ==
    /\ products = << >>
    /\ lastResp = NoResp
    /\ IdlePage /\ IdleCursor /\ IdleErr /\ IdleProd /\ IdleList /\ IdleConc

\* SpecAuthMock: the module as it starts.
InitAuthMock == IdleAuth /\ IdleButAuth

SpecAuthMock == InitAuthMock /\ [][NextAuth]_vars

\* SpecAuth: the same routes over the user tables the mock database stands for:
\* jane_smith with any role, active or not.
UserTables ==
    { [MockUsers EXCEPT !["jane_smith"].role = role,
                        !["jane_smith"].is_active = is_active] :
        role \in UserRoleValues, is_active \in BOOLEAN }

InitAuth ==
    /\ MOCK_USERS \in UserTables
    /\ MOCK_SESSIONS = MockSessions
    /\ VALID_API_KEYS = ValidApiKeys
    /\ authResp = NoAuthResp
    /\ IdleButAuth

SpecAuth == InitAuth /\ [][NextAuth]_vars


(***************************************************************************)
(* Concurrent adjust_stock requests on one product.  A request runs up to  *)
(* its first await (Product.get reads the document), and from there to its *)
(* end (the check, and product.save() writes the document); requests       *)
(* interleave between the two.                                             *)
(***************************************************************************)
ConcId == 1

UnchangedButConc ==
    UNCHANGED <<products, trav, nextPage, got, lastResp, cur, delivered, stable,
                errReq, errResp, now, prodResp, changed, listReq,
                MOCK_USERS, MOCK_SESSIONS, VALID_API_KEYS, authResp>>

Finished(r, code) ==
    conc' = [conc EXCEPT !.reqs[r].pc = "done", !.reqs[r].status = code]

\* product = await Product.get(product_id)
AdjustLoad(r) ==
    /\ conc.reqs[r].pc = "start"
    /\ LET product == ProductGet(ConcId, now)
       IN  IF ~product.found THEN Finished(r, 404)
           ELSE IF ~product.ok THEN Finished(r, 500)
           ELSE conc' = [conc EXCEPT !.reqs[r].pc = "loaded",
                                     !.reqs[r].product = product.doc]
    /\ UNCHANGED store
    /\ UnchangedButConc

\* new_quantity = product.quantity + adjustment ... await product.save()
AdjustSave(r) ==
    /\ conc.reqs[r].pc = "loaded"
    /\ LET product == conc.reqs[r].product
           new_quantity == product.quantity + conc.reqs[r].adjustment
       IN  IF NegativeStock(new_quantity)
           THEN Finished(r, 400) /\ UNCHANGED store
           ELSE /\ store' = Saved(ConcId, [product EXCEPT !.quantity = new_quantity])
                /\ Finished(r, 200)
    /\ UnchangedButConc

ConcProduct(quantity) ==
    [price |-> 1, cost |-> 1, quantity |-> quantity,
     low_stock_threshold |-> DefaultThreshold, last_updated |-> 0]

NewRequest(adjustment) ==
    [pc |-> "start", adjustment |-> adjustment, status |-> 0,
     product |-> ConcProduct(0)]

InitConc ==
    /\ \E quantity \in 0..MaxQty :
          /\ store = [i \in {ConcId} |-> ConcProduct(quantity)]
          /\ \E adjustments \in [1..MaxRequests -> Adjustments] :
                conc = [initial |-> quantity,
                        reqs |-> [r \in 1..MaxRequests |-> NewRequest(adjustments[r])]]
    /\ now = 0
    /\ prodResp = NoProdResp
    /\ changed = << >>
    /\ products = << >>
    /\ lastResp = NoResp
    /\ IdlePage /\ IdleCursor /\ IdleErr /\ IdleList /\ IdleAuth

NextConc ==
    \E r \in 1..MaxRequests : AdjustLoad(r) \/ AdjustSave(r)

SpecConc == InitConc /\ [][NextConc]_vars

(***************************************************************************)
(* Claims on offset pagination.                                            *)
(***************************************************************************)
\* The documents the fixed query of the traversal matches.
MatchingIds ==
    { i \in DOMAIN products :
        /\ CondInStock(products[i], trav.in_stock)
        /\ CondIsActive(products[i], trav.is_active)
        /\ (trav.handler \in {"basic", "search"} => products[i].is_active) }

NoDuplicates(s) == \A i, j \in 1..Len(s) : s[i] = s[j] => i = j

Ceil(total, page_size) ==
    CHOOSE n \in 0..total :
        /\ n * page_size >= total
        /\ \A m \in 0..total : m * page_size >= total => n <= m

\* C2 (as stated): for every total >= 0 and page_size in 1..100 the reported
\* total_pages equals ceil(total / page_size).
C2_TotalPagesIsCeil ==
    lastResp # NoResp =>
        /\ lastResp.status = 200
        /\ lastResp.total_pages = Ceil(lastResp.total, lastResp.page_size)

\* C2 (amended): total_pages equals ceil(total / page_size) when total > 0 and
\* equals 1 when total = 0.
C2_TotalPagesIsCeilOrOne ==
    lastResp # NoResp =>
        /\ lastResp.status = 200
        /\ lastResp.total = Cardinality(DOMAIN products)
        /\ lastResp.page_size = trav.page_size
        /\ lastResp.total > 0 =>
              lastResp.total_pages = Ceil(lastResp.total, lastResp.page_size)
        /\ lastResp.total = 0 => lastResp.total_pages = 1

C2_Witness ==
    /\ lastResp # NoResp
    /\ lastResp.total = 7
    /\ lastResp.page_size = 3
    /\ lastResp.total_pages = 3

(***************************************************************************)
(* Claims on cursor pagination.                                            *)
(***************************************************************************)
CursorGiven == cur.cursor \notin {None, ""}

CursorIsId == \E j \in IdSpace : ToString(j) = cur.cursor

CategoryMatches(doc) == cur.category \in {None, ""} \/ doc.category = cur.category

\* The active, category-matching products with an id greater than the cursor.
AfterRequestCursor ==
    { i \in DOMAIN products :
        /\ products[i].is_active
        /\ CategoryMatches(products[i])
        /\ CursorGiven => \E j \in IdSpace : ToString(j) = cur.cursor /\ i > j }

\* C3: a cursor request returns at most limit items; has_more is true exactly
\* when more than limit active, category-matching products have an id greater
\* than the cursor; count is the number of items returned; next_cursor is the id
\* of the last returned item when has_more is true and null otherwise.
C3_CursorResponseShape ==
    (cur.phase = "probed" /\ (CursorGiven => CursorIsId)) =>
        /\ lastResp.status = 200
        /\ Len(lastResp.items) <= cur.limit
        /\ Range(lastResp.items) \subseteq AfterRequestCursor
        /\ lastResp.has_more = (Cardinality(AfterRequestCursor) > cur.limit)
        /\ lastResp.count = Len(lastResp.items)
        /\ lastResp.has_more =>
              lastResp.next_cursor = ToString(lastResp.items[Len(lastResp.items)])
        /\ ~lastResp.has_more => lastResp.next_cursor = None

C3_Witness ==
    /\ cur.phase = "probed"
    /\ CursorGiven /\ CursorIsId
    /\ lastResp.has_more
    /\ Len(lastResp.items) = 2
    /\ \E i \in DOMAIN products :
          ~products[i].is_active /\ i < lastResp.items[2] /\ i > lastResp.items[1]

\* The active, category-matching products of the collection.
WalkMatching ==
    { i \in DOMAIN products : products[i].is_active /\ CategoryMatches(products[i]) }

StrictlyAscending(s) == \A i, j \in 1..Len(s) : i < j => s[i] < s[j]

\* C4: on an unchanging collection, a traversal that starts without a cursor and
\* keeps passing next_cursor with a fixed limit reaches a response with
\* has_more = false and next_cursor = null, and has then delivered every active,
\* category-matching product exactly once in ascending id order.
C4_CursorTraversalComplete ==
    /\ <>(cur.phase = "done")
    /\ [](cur.phase = "done" =>
            /\ lastResp.status = 200
            /\ ~lastResp.has_more
            /\ lastResp.next_cursor = None
            /\ StrictlyAscending(delivered)
            /\ Range(delivered) = WalkMatching)

C4_Witness ==
    /\ cur.phase = "done"
    /\ cur.limit = 1
    /\ cur.category = "a"
    /\ delivered = <<1, 3>>
    /\ 2 \in DOMAIN products

\* C5: when products are inserted or deleted between the requests of one
\* traversal, no product is returned twice, and every active, category-matching
\* product that exists during the whole traversal is returned.
C5_CursorStableUnderChurn ==
    /\ NoDuplicates(delivered)
    /\ cur.phase = "done" =>
          \A i \in stable :
              (products[i].is_active /\ CategoryMatches(products[i]))
                  => i \in Range(delivered)

C5_Witness ==
    /\ cur.phase = "done"
    /\ cur.churn >= 2
    /\ Len(delivered) >= 2
    /\ \E i \in Range(delivered) : i \notin DOMAIN products
    /\ \E i \in Range(delivered) : i \in DOMAIN products /\ i \notin stable

(***************************************************************************)
(* Claims on exception handling.                                           *)
(***************************************************************************)
HasCatchAll(h) ==
    \E b \in 1..Len(HandlerBlocks(h)) :
        \E i \in 1..Len(HandlerBlocks(h)[b].clauses) :
            HandlerBlocks(h)[b].clauses[i].catch = "Exception"

Responded == errResp # NoErrResp

\* C6: in a handler with a catch-all branch, an HTTPException raised inside a
\* try block (by the try body or by the except clause of a nested try) reaches
\* the client with its status code and detail unchanged.
C6_HttpExceptionPassesThrough ==
    (Responded /\ HasCatchAll(errReq.handler) /\ errReq.httpInTry # NoExc) =>
        /\ errResp.status = errReq.httpInTry.status
        /\ errResp.detail = errReq.httpInTry.detail
        /\ errResp.leak = errReq.httpInTry.leak

C6_Witness ==
    /\ Responded
    /\ errReq.handler = "tryexcept.create_order"
    /\ errReq.origin = HttpExc(400, "Insufficient stock. Available: {product.stock}", None)
    /\ errResp.status = 400

\* C7 (as stated): in every handler, an exception that reaches a catch-all
\* branch gives the client status 500 with a fixed detail that does not contain
\* the exception text.
C7_CatchAllIsGeneric500 ==
    (Responded /\ errReq.caughtAll > 0) =>
        /\ errResp.status = 500
        /\ errResp.leak = None

\* C7 (amended): the same, except that bad_error_handling answers 500 with
\* "Error: " followed by the exception text, and that the catch-all around the
\* cursor parsing of list_products_cursor and infinite_scroll answers 400 with a
\* fixed detail.
C7_CatchAllIsGenericExceptAntiPattern ==
    (Responded /\ errReq.caughtAll > 0) =>
        IF errReq.handler = "handlers.bad_error_handling"
        THEN /\ errResp.status = 500
             /\ errResp.detail = "Error: "
             /\ errResp.leak = errReq.origin.text
        ELSE /\ errResp.leak = None
             /\ errResp.detail # NoText
             /\ IF /\ errReq.handler \in {"search.list_products_cursor",
                                         "search.infinite_scroll"}
                   /\ errReq.caughtAll = 2
                THEN errResp.status = 400
                ELSE errResp.status = 500

C7_Witness ==
    /\ Responded
    /\ errReq.handler = "tryexcept.get_product_by_id"
    /\ errReq.origin = Exc("RuntimeError", "secret")
    /\ errReq.caughtAll = 1
    /\ errResp = [status |-> 500, detail |-> "Internal server error", leak |-> None]

\* C8: get_product_details answers 400 when get_product_or_fail raises
\* InvalidProductIDError (product_id empty or shorter than 3 characters), 404
\* when it raises ProductNotFoundError, and 500 "Internal server error" for any
\* other exception.
C8_ProductDetailsStatus ==
    (Responded /\ errReq.handler = "tryexcept.get_product_details") =>
        /\ Len(errReq.arg) < 3 =>
              errReq.origin.class = "InvalidProductIDError" /\ errResp.status = 400
        /\ errReq.origin.class = "InvalidProductIDError" =>
              Len(errReq.arg) < 3 /\ errResp.status = 400
        /\ errReq.origin.class = "ProductNotFoundError" => errResp.status = 404
        /\ errReq.origin.class \notin {"InvalidProductIDError", "ProductNotFoundError"} =>
              /\ errResp.status = 500
              /\ errResp.detail = "Internal server error"
              /\ errResp.leak = None

C8_Witness ==
    /\ Responded
    /\ errReq.handler = "tryexcept.get_product_details"
    /\ errReq.arg = "ab"
    /\ errResp.status = 400

(***************************************************************************)
(* Claims on the Product document.                                         *)
(***************************************************************************)
\* C9: after any sequence of create_product, update_product and adjust_stock
\* requests, every stored product satisfies price >= cost.
C9_NeverSoldAtLoss ==
    \A id \in DOMAIN store : store[id].price >= store[id].cost

SuccessfulWrite ==
    /\ prodResp.op \in {"create", "update", "adjust"}
    /\ prodResp.status \in {200, 201}

\* C10: after every successful create_product, update_product or adjust_stock
\* the stored last_updated is the time of that operation, and it is never
\* older than the most recent change of the product.
C10_LastUpdatedIsTimeOfWrite ==
    /\ SuccessfulWrite =>
          /\ prodResp.id \in DOMAIN store
          /\ store[prodResp.id].last_updated = prodResp.at
    /\ \A id \in DOMAIN store :
          /\ id \in DOMAIN changed
          /\ store[id].last_updated >= changed[id]

C10_Witness ==
    /\ prodResp.op = "update"
    /\ prodResp.status = 200
    /\ prodResp.at = 2
    /\ store[prodResp.id].last_updated = 2
    /\ now = 2

ReturnsProduct ==
    /\ prodResp.op \in {"create", "get", "update", "adjust"}
    /\ prodResp.status \in {200, 201}

\* C11: in every product returned by create_product, get_product,
\* update_product or adjust_stock, in_stock equals (quantity > 0) and
\* stock_status is out_of_stock iff quantity = 0, low_stock iff
\* 0 < quantity <= low_stock_threshold and in_stock otherwise, for the quantity
\* stored after the operation.
C11_ComputedFieldsAccurate ==
    ReturnsProduct =>
        /\ prodResp.id \in DOMAIN store
        /\ LET q == store[prodResp.id].quantity
               thr == store[prodResp.id].low_stock_threshold
               body == prodResp.body
           IN  /\ body.quantity = q
               /\ body.in_stock = (q > 0)
               /\ (body.stock_status = "out_of_stock") = (q = 0)
               /\ (body.stock_status = "low_stock") = (0 < q /\ q <= thr)
               /\ (body.stock_status = "in_stock") = (q > thr /\ q # 0)
               /\ body.stock_status \in {"out_of_stock", "low_stock", "in_stock"}

C11_Witness ==
    /\ prodResp.op = "adjust"
    /\ prodResp.status = 200
    /\ prodResp.body.stock_status = "in_stock"
    /\ store[prodResp.id].quantity = 2
    /\ store[prodResp.id].low_stock_threshold = 1

\* What an adjust_stock request does to the stored quantity.
AdjustEffect(id, adjustment) ==
    AdjustStock(id, adjustment) =>
        IF prodResp'.status = 200
        THEN /\ store'[id].quantity = store[id].quantity + adjustment
             /\ store'[id].quantity >= 0
        ELSE /\ store' = store
             /\ (prodResp'.status = 400) =
                   (/\ id \in DOMAIN store
                    /\ validate_profit_margin(store[id])
                    /\ store[id].quantity + adjustment < 0)

\* C12: the stored quantity is never negative; an adjust_stock request whose
\* adjustment would make it negative is answered 400 and leaves the stored
\* quantity unchanged, and every accepted request changes the quantity by
\* exactly its adjustment.
C12_StockNeverNegative ==
    /\ [](\A id \in DOMAIN store : store[id].quantity >= 0)
    /\ [][\A id \in ProdIds, adjustment \in Adjustments :
            AdjustEffect(id, adjustment)]_vars

C12_Witness ==
    /\ prodResp.op = "adjust"
    /\ prodResp.status = 400
    /\ prodResp.id \in DOMAIN store
    /\ store[prodResp.id].quantity = 1

Listed ==
    /\ prodResp.op = "list"
    /\ prodResp.status = 200

\* The stored products that pass the category and price parts of the last
\* list_products request.
OtherwiseMatching ==
    { i \in DOMAIN store :
        /\ CategoryQuery(listReq.category, store[i])
        /\ PriceQuery(listReq.min_price, listReq.max_price, store[i]) }

\* C13: list_products with in_stock_only = true selects exactly the stored
\* products whose computed in_stock is true, with in_stock_only = false exactly
\* those whose in_stock is false: the total is their number and the page is the
\* page of them.
C13_FilterAgreesWithInStock ==
    (prodResp.op = "list" /\ listReq.in_stock_only # Absent) =>
        LET want == listReq.in_stock_only[1]
            agree == { i \in OtherwiseMatching : in_stock(store[i]) = want }
        IN  /\ FindIds(listReq.category, listReq.min_price, listReq.max_price,
                       listReq.in_stock_only) = agree
            /\ Listed =>
                 /\ prodResp.body.total = Cardinality(agree)
                 /\ \A k \in 1..Len(prodResp.body.products) :
                       /\ prodResp.body.products[k].in_stock = want
                       /\ prodResp.body.products[k].id \in agree
                 /\ Len(prodResp.body.products) =
                       Min(prodResp.body.page_size,
                           IF Cardinality(agree) >
                                 (prodResp.body.page - 1) * prodResp.body.page_size
                           THEN Cardinality(agree)
                                 - (prodResp.body.page - 1) * prodResp.body.page_size
                           ELSE 0)

C13_Witness ==
    /\ Listed
    /\ listReq.in_stock_only = Given(FALSE)
    /\ DOMAIN store = {1, 2}
    /\ store[1].quantity = 0
    /\ store[2].quantity = 2
    /\ Len(prodResp.body.products) = 1
    /\ prodResp.body.products[1].id = 1

(***************************************************************************)
(* Claims on the dependencies of the header-cookie example.                *)
(***************************************************************************)
TokenDone == authResp.route = "get_token"

\* C14: get_token tries the Authorization header first and the cookie second:
\* for a header "Bearer " followed by a non-empty token t it returns exactly t
\* whatever the cookie holds; without a header it returns the cookie value;
\* when neither yields a non-empty token it raises 401.
C14_GetTokenHeaderThenCookie ==
    TokenDone =>
        LET authorization == authResp.authorization
            access_token == authResp.access_token
        IN  /\ (NonEmpty(authorization) /\ StartsWithBearer(authorization[1])
                   /\ RemovePrefix(authorization[1]) # << >>) =>
                  /\ authResp.status = 200
                  /\ authResp.token = RemovePrefix(authorization[1])
            /\ (authorization = Absent /\ NonEmpty(access_token)) =>
                  /\ authResp.status = 200
                  /\ authResp.token = access_token[1]
            /\ (authorization = Absent /\ ~NonEmpty(access_token)) =>
                  authResp.status = 401

ProtectedRoutes ==
    {"get_profile", "admin_only", "list_items", "delete_post", "approve_post",
     "query_database"}

\* get_current_user was called: the route depends on it and get_token returned.
CurrentUserCalled ==
    /\ authResp.route \in ProtectedRoutes
    /\ authResp.token # << >>

\* C15: get_current_user returns a User only when the token verifies, its
\* payload carries the user_id of an existing user and that user is active; an
\* expired token, an invalid token, a missing user_id and an unknown user give
\* 401, an inactive account gives 403.
C15_CurrentUserOutcomes ==
    CurrentUserCalled =>
        LET decoded == jwt_decode(authResp.token)
            username == FindUser(MOCK_USERS, decoded.user_id)
            verifies == decoded.raises = None
            known == verifies /\ decoded.user_id # None /\ username # None
        IN  /\ authResp.user # None =>
                  /\ known
                  /\ MOCK_USERS[username].is_active
                  /\ authResp.user = username
            /\ (known /\ MOCK_USERS[username].is_active) => authResp.user = username
            /\ decoded.raises = "ExpiredSignatureError" => authResp.status = 401
            /\ decoded.raises = "DecodeError" => authResp.status = 401
            /\ (verifies /\ decoded.user_id = None) => authResp.status = 401
            /\ (verifies /\ decoded.user_id # None /\ username = None) =>
                  authResp.status = 401
            /\ (known /\ ~MOCK_USERS[username].is_active) => authResp.status = 403

\* C16: delete_post succeeds only for an authenticated admin, approve_post only
\* for an authenticated admin or moderator; any other authenticated role gets
\* 403, and a request that is not authenticated never reaches the role check.
C16_RoleChecksEnforced ==
    authResp.route \in {"delete_post", "approve_post"} =>
        LET allowed == IF authResp.route = "delete_post"
                       THEN {"admin"} ELSE {"admin", "moderator"}
        IN  /\ authResp.status = 200 =>
                  /\ authResp.user # None
                  /\ MOCK_USERS[authResp.user].role \in allowed
            /\ (authResp.user # None /\ MOCK_USERS[authResp.user].role \notin allowed) =>
                  authResp.status = 403
            /\ authResp.user = None =>
                  /\ ~authResp.role_checked
                  /\ authResp.status # 200

C16_Witness ==
    /\ authResp.route = "approve_post"
    /\ authResp.status = 200
    /\ authResp.user = "jane_smith"
    /\ MOCK_USERS["jane_smith"].role = "moderator"
    /\ authResp.role_checked

\* C17: MOCK_USERS, MOCK_SESSIONS and VALID_API_KEYS have, after any sequence of
\* requests, the contents they have at start-up.
C17_ModuleStateUnchanged ==
    /\ MOCK_USERS = MockUsers
    /\ MOCK_SESSIONS = MockSessions
    /\ VALID_API_KEYS = ValidApiKeys

C17_Witness ==
    /\ authResp.route = "login"
    /\ authResp.status = 200
    /\ authResp.set_cookie = Given(create_access_token("user-456"))
    /\ MOCK_SESSIONS = MockSessions

(***************************************************************************)
(* Claim on concurrent stock adjustments.                                  *)
(***************************************************************************)
AllDone == \A r \in DOMAIN conc.reqs : conc.reqs[r].pc = "done"

RECURSIVE AcceptedSum(_)
AcceptedSum(rs) ==
    IF rs = {} THEN 0
    ELSE LET r == CHOOSE x \in rs : TRUE
         IN  (IF conc.reqs[r].status = 200 THEN conc.reqs[r].adjustment ELSE 0)
                 + AcceptedSum(rs \ {r})

\* C18: for any interleaving of concurrent adjust_stock requests on one
\* product, the final stored quantity is the initial quantity plus the sum of
\* the adjustments of the requests that returned success, and it is never
\* negative.
C18_NoLostAdjustment ==
    /\ \A id \in DOMAIN store : store[id].quantity >= 0
    /\ (DOMAIN conc.reqs # {} /\ AllDone) =>
          store[ConcId].quantity = conc.initial + AcceptedSum(DOMAIN conc.reqs)

====
